---- MODULE Spec2Model ----
(***************************************************************************)
(* Model of the TXMB validator (validateTXMB.py, validateFasta.py,         *)
(* validateMetadataTable.py, validateMetadataRecord.py).                   *)
(*                                                                         *)
(* Python strings are sequences of one-character strings, so that the      *)
(* regular expressions, split() and slicing of the code are computed and   *)
(* not assumed.  A line read from the FASTA file keeps its line break,     *)
(* as iterating a text file does in Python.  Lists are sequences; the      *)
(* code's 0-based indices are kept.  An error message is a record whose    *)
(* kind names the message text of the source.                              *)
(***************************************************************************)
EXTENDS Integers, Sequences, FiniteSets, TLC

\* ------------------------------------------------------------------ bounds

\* lines read from one FASTA file
MaxLines == 4
\* entries of the table identifier list handed to the FASTA validator
MaxIds == 2
\* length of the strings handed to the field validators
MaxStr == 3

\* ------------------------------------------------------------- characters

NL == "\n"

Upper == {"A","B","C","D","E","F","G","H","I","J","K","L","M",
          "N","O","P","Q","R","S","T","U","V","W","X","Y","Z"}
Lower == {"a","b","c","d","e","f","g","h","i","j","k","l","m",
          "n","o","p","q","r","s","t","u","v","w","x","y","z"}
Digit == {"0","1","2","3","4","5","6","7","8","9"}

\* \s of Python's re module, as far as the inputs of the model go
Whitespace == {" ", "\t", NL}

\* [ATCGactgRYSWKMBDHVryswkmbdhvNn]
NucleotideChars == {"A","T","C","G","a","c","t","g","R","Y","S","W","K","M","B",
                    "D","H","V","r","y","s","w","k","m","b","d","h","v","N","n"}

\* [efijlopquxzEFIJLOPQUXZ]
NonNucleotideChars == {"e","f","i","j","l","o","p","q","u","x","z",
                       "E","F","I","J","L","O","P","Q","U","X","Z"}

\* [A-Za-z0-9_]
WordChars == Upper \cup Lower \cup Digit \cup {"_"}

\* ---------------------------------------------------------------- strings

\* all sequences over S of length at most n
SeqsUpTo(S, n) == UNION {[1..k -> S] : k \in 0..n}

AllIn(s, S) == \A i \in 1..Len(s) : s[i] \in S

\* str.find: the 1-based position of the first c in s, 0 when there is none
FirstPos(s, c) ==
  IF \E i \in 1..Len(s) : s[i] = c
  THEN CHOOSE i \in 1..Len(s) : s[i] = c /\ \A j \in 1..(i-1) : s[j] # c
  ELSE 0

\* "$" of Python's re: the end of the string, or just before a line break
\* that ends the string.  BeforeEnd(s) is s without such a final line break.
BeforeEnd(s) ==
  IF Len(s) > 0 /\ s[Len(s)] = NL THEN SubSeq(s, 1, Len(s) - 1) ELSE s

\* re.match("^[S]*$", s)
MatchStar(s, S) == AllIn(s, S) \/ AllIn(BeforeEnd(s), S)

\* re.match("^[S]+$", s)
MatchPlus(s, S) ==
  \/ Len(s) > 0 /\ AllIn(s, S)
  \/ Len(BeforeEnd(s)) > 0 /\ AllIn(BeforeEnd(s), S)

\* re.match("[S]", s): the pattern is tried at the start of s only
MatchFirst(s, S) == Len(s) > 0 /\ s[1] \in S

\* ----------------------------------------------------------------- errors

Err(kind, line, text) == [kind |-> kind, line |-> line, text |-> text]

Kinds(errors) == [i \in 1..Len(errors) |-> errors[i].kind]

CountKind(errors, kind) == Cardinality({i \in 1..Len(errors) : errors[i].kind = kind})

\* list.index: the 0-based index of the first x in list, -1 for ValueError
ListIndex(list, x) ==
  IF \E i \in 1..Len(list) : list[i] = x
  THEN (CHOOSE i \in 1..Len(list) : list[i] = x /\ \A j \in 1..(i-1) : list[j] # x) - 1
  ELSE -1

\* list.pop(i) for a 0-based i inside the list: the list without that element
ListPop(list, i) == SubSeq(list, 1, i) \o SubSeq(list, i + 2, Len(list))

\* ============================================================ validateFasta

\* check_identifier: the identifier is the first '|' segment without its
\* first character; the index stays 0 when the identifier is not found.
FastaIdentifier(id_line) ==
  LET cut == FirstPos(id_line, "|")
      identifier_section == IF cut = 0 THEN id_line ELSE SubSeq(id_line, 1, cut - 1)
  IN  SubSeq(identifier_section, 2, Len(identifier_section))

CheckIdentifier(id_line, remaining_ids, lc) ==
  LET identifier == FastaIdentifier(id_line)
      found == ListIndex(remaining_ids, identifier)
  IN  IF found >= 0
      THEN [errors |-> <<>>, id_index |-> found]
      ELSE [errors |-> <<Err("IdNotInTable", lc, identifier)>>, id_index |-> 0]

\* check_sequence
CheckSequence(sequence_line, lc) ==
  IF MatchStar(sequence_line, NucleotideChars) THEN <<>>
  ELSE
    LET e1 == IF MatchFirst(sequence_line, Whitespace)
              THEN <<Err("SeqWhitespace", lc, <<>>)>> ELSE <<>>
        e2 == IF MatchFirst(sequence_line, NonNucleotideChars)
              THEN <<Err("SeqNonNucleotide", lc, <<>>)>> ELSE <<>>
        e3 == IF sequence_line = <<>>
              THEN <<Err("SeqNull", lc, <<>>)>> ELSE <<>>
        sequence_errors == e1 \o e2 \o e3
    IN  IF sequence_errors = <<>>
        THEN <<Err("SeqUndiagnosed", lc, <<>>)>>
        ELSE sequence_errors

\* The state of validate_txmb_fasta between two lines of the file; raised is
\* set when an exception leaves the function (list.pop on a bad index).
FastaStart(ids) ==
  [fasta_errors |-> <<>>, linecount |-> 0, line_flag |-> "",
   remaining_ids |-> ids, raised |-> FALSE]

\* line 42-47: an identifier line while no identifier line is pending
ConsumeIdLine(st, line) ==
  LET lc == st.linecount + 1
      r  == CheckIdentifier(line, st.remaining_ids, lc)
  IN  IF r.id_index >= Len(st.remaining_ids)
      THEN [st EXCEPT !.linecount = lc, !.line_flag = "id", !.raised = TRUE]
      ELSE [st EXCEPT !.linecount = lc, !.line_flag = "id",
                      !.remaining_ids = ListPop(@, r.id_index),
                      !.fasta_errors = @ \o r.errors]

\* a loop without line 48-51: the second identifier line is matched like the first
SecondIdLineMatched(st, line) == ConsumeIdLine(st, line)

\* line 48-51: an identifier line right after an identifier line
SecondIdLine(st, line) ==
  LET lc == st.linecount + 1
  IN  [st EXCEPT !.linecount = lc,
                 !.fasta_errors = Append(@, Err("TwoIdLines", lc, <<>>))]

\* line 53-56: a sequence line after an identifier line
ConsumeSeqLine(st, line) ==
  LET lc == st.linecount + 1
  IN  [st EXCEPT !.linecount = lc, !.line_flag = "se",
                 !.fasta_errors = @ \o CheckSequence(line, lc)]

\* line 57-60: a sequence line right after a sequence line
SecondSeqLine(st, line) ==
  LET lc == st.linecount + 1
  IN  [st EXCEPT !.linecount = lc,
                 !.fasta_errors = Append(@, Err("TwoSeqLines", lc, <<>>))]

\* line 52-60 with line_flag == '': neither branch is taken
LeadingSeqLine(st, line) == [st EXCEPT !.linecount = st.linecount + 1]

IsIdLine(line) == line[1] = ">"

\* line 39-60: one pass of the loop body
FastaLine(st, line) ==
  IF IsIdLine(line)
  THEN IF st.line_flag \in {"se", ""} THEN ConsumeIdLine(st, line)
       ELSE SecondIdLine(st, line)
  ELSE IF st.line_flag = "id" THEN ConsumeSeqLine(st, line)
       ELSE IF st.line_flag = "se" THEN SecondSeqLine(st, line)
       ELSE LeadingSeqLine(st, line)

\* line 63-66: the message after the first k remaining identifiers were added
RECURSIVE UnmatchedText(_, _)
UnmatchedText(ids, k) ==
  IF k = 0 THEN <<>> ELSE UnmatchedText(ids, k - 1) \o ids[k] \o <<NL>>

\* line 62-67: the append is inside the for loop, one error per remaining id
UnmatchedErrors(ids) ==
  [k \in 1..Len(ids) |-> Err("IdsNotInFasta", 0, UnmatchedText(ids, k))]

\* line 69-71
OddLinesErrors(lc) ==
  IF lc % 2 # 0 THEN <<Err("OddLineCount", 0, <<>>)>> ELSE <<>>

\* line 62-75: after the loop
FastaClose(st) ==
  [st EXCEPT !.fasta_errors =
     @ \o UnmatchedErrors(st.remaining_ids) \o OddLinesErrors(st.linecount)]

RECURSIVE FastaLoop(_, _, _)
FastaLoop(st, lines, i) ==
  IF i > Len(lines) \/ st.raised THEN st
  ELSE FastaLoop(FastaLine(st, lines[i]), lines, i + 1)

\* validate_txmb_fasta on a file: [exists, lines].  A file that cannot be
\* opened gives a list holding the exception object itself (line 30-37).
ValidateTxmbFasta(file, ids) ==
  IF ~file.exists
  THEN [FastaStart(ids) EXCEPT !.fasta_errors = <<Err("OpenException", 0, <<>>)>>]
  ELSE LET st == FastaLoop(FastaStart(ids), file.lines, 1)
       IN  IF st.raised THEN st ELSE FastaClose(st)

\* ==================================================== validateMetadataTable

field_length_limit == 50

\* an identifier check that accepts every cell
IdentifierUnchecked(sequence_identifier) == <<>>

\* validate_identifier on a string read from the table
ValidateIdentifier(sequence_identifier) ==
  IF sequence_identifier = <<>> THEN <<Err("IdNull", 0, <<>>)>>
  ELSE (IF Len(sequence_identifier) > field_length_limit
        THEN <<Err("IdTooLong", 0, sequence_identifier)>> ELSE <<>>)
       \o
       (IF ~MatchPlus(sequence_identifier, WordChars)
        THEN <<Err("IdBadChars", 0, sequence_identifier)>> ELSE <<>>)

\* validate_identifier on a cell as the table decoder delivers it: a string,
\* or a number [type, value] with value its decimal text ("nan" for NaN).
\* "not x" holds for 0 and np.isnan(x) returns for every number without
\* raising, so line 166-169 or line 171-175 return for a number; for a string
\* np.isnan raises TypeError and the checks of line 179-186 follow.
ValidateIdentifierCell(cell) ==
  IF cell.type = "str" THEN ValidateIdentifier(cell.value)
  ELSE <<Err("IdNull", 0, <<>>)>>

SeqRange(list) == {list[i] : i \in 1..Len(list)}

\* a duplicate check with one message for each repeated identifier
DuplicateIdErrorsEach(ids) ==
  [i \in 1..(Len(ids) - Cardinality({ids[j] : j \in 1..Len(ids)})) |->
     Err("DuplicateIds", 0, <<>>)]

\* validateTXMB.py line 190-192: len(list) != len(set(list))
DuplicateIdErrors(ids) ==
  IF Len(ids) # Cardinality(SeqRange(ids))
  THEN <<Err("DuplicateIds", 0, <<>>)>> ELSE <<>>

\* re.match(r'^[A-Z]{1,6}[0-9]{5,8}(\.[0-9])?$', s)
MatchAccessionAt(t) ==
  \E u \in 1..6, d \in 5..8 :
    /\ Len(t) = u + d \/ Len(t) = u + d + 2
    /\ \A i \in 1..u : t[i] \in Upper
    /\ \A i \in (u + 1)..(u + d) : t[i] \in Digit
    /\ Len(t) = u + d + 2 => (t[u + d + 1] = "." /\ t[u + d + 2] \in Digit)

MatchAccession(s) == MatchAccessionAt(s) \/ MatchAccessionAt(BeforeEnd(s))

\* re.match(r'^<?\d+\.\.>?\d+$', s)
MatchRangeAt(t) ==
  LET a == IF Len(t) > 0 /\ t[1] = "<" THEN 1 ELSE 0
  IN  \E n \in 1..Len(t) :
        /\ a + n + 3 <= Len(t)
        /\ \A i \in (a + 1)..(a + n) : t[i] \in Digit
        /\ t[a + n + 1] = "." /\ t[a + n + 2] = "."
        /\ LET b == IF t[a + n + 3] = ">" THEN 1 ELSE 0
           IN  /\ a + n + 3 + b <= Len(t)
               /\ \A i \in (a + n + 3 + b)..Len(t) : t[i] \in Digit

MatchRange(s) == MatchRangeAt(s) \/ MatchRangeAt(BeforeEnd(s))

\* validate_insdc_sequence_accession on a string read from the table
ValidateInsdcSequenceAccession(insdc_sequence_accession) ==
  IF insdc_sequence_accession = <<>>
  THEN [errors |-> <<>>, accession_present |-> FALSE]
  ELSE [errors |-> IF MatchAccession(insdc_sequence_accession) THEN <<>>
                   ELSE <<Err("AccessionInvalid", 0, insdc_sequence_accession)>>,
        accession_present |-> TRUE]

\* a range check that gives up on the format once the accession is missing
RangeFormatSkipped(insdc_sequence_range, accession_present) ==
  IF insdc_sequence_range = <<>> THEN <<>>
  ELSE IF ~accession_present
  THEN <<Err("RangeWithoutAccession", 0, insdc_sequence_range)>>
  ELSE IF ~MatchRange(insdc_sequence_range)
  THEN <<Err("RangeInvalid", 0, insdc_sequence_range)>>
  ELSE <<>>

\* validate_insdc_sequence_range on a string read from the table
ValidateInsdcSequenceRange(insdc_sequence_range, accession_present) ==
  IF insdc_sequence_range = <<>> THEN <<>>
  ELSE (IF ~accession_present
        THEN <<Err("RangeWithoutAccession", 0, insdc_sequence_range)>> ELSE <<>>)
       \o
       (IF ~MatchRange(insdc_sequence_range)
        THEN <<Err("RangeInvalid", 0, insdc_sequence_range)>> ELSE <<>>)

\* ---- ordered dictionaries: a sequence of <<key, value>> with distinct keys

DictKeys(d) == [i \in 1..Len(d) |-> d[i][1]]

DictHas(d, k) == \E i \in 1..Len(d) : d[i][1] = k

DictGet(d, k) == d[CHOOSE i \in 1..Len(d) : d[i][1] = k][2]

\* d[k] = v: a present key keeps its place
DictSet(d, k, v) ==
  IF DictHas(d, k)
  THEN [i \in 1..Len(d) |-> IF d[i][1] = k THEN <<k, v>> ELSE d[i]]
  ELSE Append(d, <<k, v>>)

\* ---- list.sort() on strings: by code point, a prefix before its extensions

CharOrder ==
  <<" ", "$", "0", "1", "2", "3", "4", "5", "6", "7", "8", "9",
    "A", "B", "C", "D", "E", "F", "G", "H", "I", "J", "K", "L", "M",
    "N", "O", "P", "Q", "R", "S", "T", "U", "V", "W", "X", "Y", "Z", "_",
    "a", "b", "c", "d", "e", "f", "g", "h", "i", "j", "k", "l", "m",
    "n", "o", "p", "q", "r", "s", "t", "u", "v", "w", "x", "y", "z">>

CharCode(c) == CHOOSE i \in 1..Len(CharOrder) : CharOrder[i] = c

StrLess(s, t) ==
  \E n \in 0..Len(s) :
    /\ n <= Len(t)
    /\ \A i \in 1..n : s[i] = t[i]
    /\ \/ n = Len(s) /\ n < Len(t)
       \/ n < Len(s) /\ n < Len(t) /\ CharCode(s[n + 1]) < CharCode(t[n + 1])

RECURSIVE SortStrings(_)
SortStrings(list) ==
  IF list = <<>> THEN <<>>
  ELSE LET m == CHOOSE i \in 1..Len(list) :
                  \A j \in 1..Len(list) :
                    ~StrLess(list[j], list[i]) /\ (list[j] = list[i] => i <= j)
       IN  <<list[m]>> \o SortStrings(ListPop(list, m - 1))

\* ---- the header checks

mandatory_headers ==
  << <<"l", "o", "c", "a", "l", "_", "i", "d", "e", "n", "t", "i", "f", "i", "e", "r">>,
     <<"i", "n", "s", "d", "c", "_", "s", "e", "q", "u", "e", "n", "c", "e", "_", "a", "c", "c", "e", "s", "s", "i", "o", "n">>,
     <<"i", "n", "s", "d", "c", "_", "s", "e", "q", "u", "e", "n", "c", "e", "_", "r", "a", "n", "g", "e">>,
     <<"l", "o", "c", "a", "l", "_", "o", "r", "g", "a", "n", "i", "s", "m", "_", "n", "a", "m", "e">>,
     <<"l", "o", "c", "a", "l", "_", "l", "i", "n", "e", "a", "g", "e">>,
     <<"n", "c", "b", "i", "_", "t", "a", "x", "_", "i", "d">> >>

\* validate_number_of_columns
ValidateNumberOfColumns(mandatory, input_headers, record_custom_columns) ==
  IF Len(mandatory) + Len(record_custom_columns) # Len(input_headers)
  THEN <<Err("ColumnCount", 0,
             <<Len(input_headers), Len(mandatory) + Len(record_custom_columns)>>)>>
  ELSE <<>>

\* validate_mandatory_headers, line 73-80: the loop over the first k
\* mandatory headers; a header found is popped from the input list
RECURSIVE MandatoryLoop(_, _, _)
MandatoryLoop(input_headers, mandatory, k) ==
  IF k = 0 THEN [errors |-> <<>>, input |-> input_headers, found |-> <<>>]
  ELSE LET before == MandatoryLoop(input_headers, mandatory, k - 1)
           at     == ListIndex(before.input, mandatory[k])
       IN  IF at >= 0
           THEN [before EXCEPT !.input = ListPop(@, at),
                               !.found = Append(@, mandatory[k])]
           ELSE [before EXCEPT !.errors = Append(@, Err("MissingHeader", 0, mandatory[k]))]

\* validate_mandatory_headers: the errors and what is left of the input list
ValidateMandatoryHeaders(input_headers, mandatory) ==
  LET r == MandatoryLoop(input_headers, mandatory, Len(mandatory))
  IN  [errors |-> r.errors \o (IF mandatory # r.found
                               THEN <<Err("MandatoryHeadersNotFound", 0, <<>>)>>
                               ELSE <<>>),
       table_custom_headers |-> r.input]

\* validate_custom_columns of the table module, line 129-139: the loop over
\* the first k sorted record headers
RECURSIVE CustomLoop(_, _, _)
CustomLoop(table_sorted, record_headers, k) ==
  IF k = 0 THEN [errors |-> <<>>, table |-> table_sorted]
  ELSE LET before == CustomLoop(table_sorted, record_headers, k - 1)
           at     == ListIndex(before.table, record_headers[k])
       IN  IF at >= 0
           THEN [before EXCEPT !.table = ListPop(@, at)]
           ELSE [before EXCEPT
                   !.errors = Append(@, Err("CustomHeaderNotInTable", 0, record_headers[k]))]

\* a comparison of the custom columns that never looks at the two sizes
CustomColumnsUncounted(table_custom_columns, record_custom_columns) ==
  IF table_custom_columns = <<>> /\ record_custom_columns = <<>> THEN <<>>
  ELSE IF record_custom_columns = <<>> THEN <<Err("CustomUndeclared", 0, <<>>)>>
  ELSE IF table_custom_columns = <<>> THEN <<Err("CustomUnused", 0, <<>>)>>
  ELSE
    LET record_headers == SortStrings(DictKeys(record_custom_columns))
        table_sorted   == SortStrings(table_custom_columns)
        r == CustomLoop(table_sorted, record_headers, Len(record_headers))
    IN  r.errors
        \o (IF r.table # <<>>
            THEN <<Err("CustomHeadersUndefined", 0, r.table)>> ELSE <<>>)

\* validate_custom_columns of the table module
ValidateTableCustomColumns(table_custom_columns, record_custom_columns) ==
  IF table_custom_columns = <<>> /\ record_custom_columns = <<>> THEN <<>>
  ELSE IF record_custom_columns = <<>> THEN <<Err("CustomUndeclared", 0, <<>>)>>
  ELSE IF table_custom_columns = <<>> THEN <<Err("CustomUnused", 0, <<>>)>>
  ELSE
    LET record_headers == SortStrings(DictKeys(record_custom_columns))
        table_sorted   == SortStrings(table_custom_columns)
        r == CustomLoop(table_sorted, record_headers, Len(record_headers))
    IN  (IF Len(record_headers) # Len(table_sorted)
         THEN <<Err("CustomCountMismatch", 0, <<>>)>> ELSE <<>>)
        \o r.errors
        \o (IF r.table # <<>>
            THEN <<Err("CustomHeadersUndefined", 0, r.table)>> ELSE <<>>)

\* the list object handed to validate_custom_columns as the call leaves it:
\* untouched by the three early returns, otherwise sorted (line 122) and
\* without the entries popped at line 141
TableCustomColumnsAfter(table_custom_columns, record_custom_columns) ==
  IF table_custom_columns = <<>> \/ record_custom_columns = <<>>
  THEN table_custom_columns
  ELSE LET record_headers == SortStrings(DictKeys(record_custom_columns))
       IN  CustomLoop(SortStrings(table_custom_columns), record_headers,
                      Len(record_headers)).table

\* ---- the row checks

\* re.match(r'^[A-Za-z]+\s.+$', s): "." does not match a line break
MatchNameAt(t) ==
  \E n \in 1..Len(t) :
    /\ n + 2 <= Len(t)
    /\ \A i \in 1..n : t[i] \in Upper \cup Lower
    /\ t[n + 1] \in Whitespace
    /\ \A i \in (n + 2)..Len(t) : t[i] # NL

MatchName(s) == MatchNameAt(s) \/ MatchNameAt(BeforeEnd(s))

\* int(tax_id) of a taxId given in decimal digits
DigitValue(c) == (CHOOSE i \in 1..10 : <<"0", "1", "2", "3", "4", "5", "6", "7", "8", "9">>[i] = c) - 1

RECURSIVE IntOf(_)
IntOf(s) == IF s = <<>> THEN 0 ELSE 10 * IntOf(SubSeq(s, 1, Len(s) - 1)) + DigitValue(s[Len(s)])

IsInt(s) == s # <<>> /\ AllIn(s, Digit)

\* a name check that asks the taxonomy service in either mode
OrganismAlwaysLookedUp(local_organism_name, ncbi, lookup) ==
  IF local_organism_name = <<>>
  THEN [errors |-> <<Err("NoOrganismName", 0, <<>>)>>, ids |-> <<>>, raised |-> FALSE]
  ELSE [errors |-> IF ncbi \/ MatchName(local_organism_name) THEN <<>>
                   ELSE <<Err("NameInvalid", 0, local_organism_name)>>,
        ids |-> IF lookup.kind = "list"
                THEN [i \in 1..Len(lookup.ids) |-> IntOf(lookup.ids[i])] ELSE <<>>,
        raised |-> lookup.kind \in {"connection_error", "json_object"}]

\* validate_local_organism_name.  lookup is what requests.get and
\* response.json() give for the name: [kind, ids] with kind
\*   "connection_error": requests.get raises requests' ConnectionError, which
\*        is not the builtin ConnectionError of line 280 and leaves the function
\*   "builtin_connection_error": the builtin ConnectionError is raised
\*   "not_json": response.json() raises JSONDecodeError
\*   "json_object": a JSON object with a member; suggestion['taxId'] on its
\*        key, a string, is a TypeError that line 291 does not catch
\*   "list": a JSON list of suggestions with the taxId values ids
ValidateLocalOrganismName(local_organism_name, ncbi, lookup) ==
  IF local_organism_name = <<>>
  THEN [errors |-> <<Err("NoOrganismName", 0, <<>>)>>, ids |-> <<>>, raised |-> FALSE]
  ELSE IF ncbi
  THEN CASE lookup.kind = "connection_error" ->
              [errors |-> <<>>, ids |-> <<>>, raised |-> TRUE]
         [] lookup.kind = "builtin_connection_error" ->
              [errors |-> <<Err("NoConnection", 0, <<>>)>>, ids |-> <<>>, raised |-> FALSE]
         [] lookup.kind = "not_json" ->
              [errors |-> <<Err("NoNcbiMatch", 0, local_organism_name)>>,
               ids |-> <<>>, raised |-> FALSE]
         [] lookup.kind = "json_object" ->
              [errors |-> <<>>, ids |-> <<>>, raised |-> TRUE]
         [] OTHER ->
              \* line 303: int() of a taxId that is no number is a ValueError
              IF \E i \in 1..Len(lookup.ids) : ~IsInt(lookup.ids[i])
              THEN [errors |-> <<>>, ids |-> <<>>, raised |-> TRUE]
              ELSE [errors |-> <<>>,
                    ids |-> [i \in 1..Len(lookup.ids) |-> IntOf(lookup.ids[i])],
                    raised |-> FALSE]
  ELSE [errors |-> IF MatchName(local_organism_name) THEN <<>>
                   ELSE <<Err("NameInvalid", 0, local_organism_name)>>,
        ids |-> <<>>, raised |-> FALSE]

\* validate_local_lineage: str() of a non-empty string is never empty
ValidateLocalLineage(local_lineage) == <<>>

\* a taxon-ID check that lets a row without ID pass in NCBI mode
TaxIdOptional(input_ncbi_tax_id, expected_ncbi_tax_ids, ncbi, local_organism_name) ==
  IF ~ncbi
  THEN IF input_ncbi_tax_id # 0
       THEN <<Err("TaxIdWithoutNcbi", 0, <<input_ncbi_tax_id>>)>> ELSE <<>>
  ELSE IF input_ncbi_tax_id # 0 /\ input_ncbi_tax_id \notin SeqRange(expected_ncbi_tax_ids)
       THEN <<Err("TaxIdMismatch", 0, <<input_ncbi_tax_id>>)>> ELSE <<>>

\* validate_ncbi_tax_id; the ID is a number, 0 for an empty cell
ValidateNcbiTaxId(input_ncbi_tax_id, expected_ncbi_tax_ids, ncbi, local_organism_name) ==
  IF ~ncbi
  THEN IF input_ncbi_tax_id # 0
       THEN <<Err("TaxIdWithoutNcbi", 0, <<input_ncbi_tax_id>>)>> ELSE <<>>
  ELSE IF input_ncbi_tax_id \notin SeqRange(expected_ncbi_tax_ids)
       THEN <<Err("TaxIdMismatch", 0, <<input_ncbi_tax_id>>)>> ELSE <<>>

\* =================================================== validateMetadataRecord

ncbi_synonyms == {<<"N", "C", "B", "I">>, <<"n", "c", "b", "i">>}

\* a taxonomy check that hands back the pair for the empty value as well
TaxonomyAlwaysPair(local_taxonomy) ==
  IF local_taxonomy = <<>>
  THEN << <<Err("EmptyMandatoryValue", 0, <<>>)>>, FALSE >>
  ELSE << (IF ~MatchPlus(local_taxonomy, WordChars)
           THEN <<Err("RegexMismatch", 0, <<>>)>> ELSE <<>>)
          \o
          (IF ~(Len(local_taxonomy) <= field_length_limit)
           THEN <<Err("FieldTooLong", 0, <<>>)>> ELSE <<>>),
          local_taxonomy \in ncbi_synonyms >>

\* validate_local_taxonomy.  The value returned is a Python sequence: the
\* tuple (errors, ncbi_tax), or for an empty value the error list alone,
\* which then holds the one message about the empty field (line 55-60).
ValidateLocalTaxonomy(local_taxonomy) ==
  IF local_taxonomy = <<>>
  THEN <<Err("EmptyMandatoryValue", 0, <<>>)>>
  ELSE << (IF ~MatchPlus(local_taxonomy, WordChars)
           THEN <<Err("RegexMismatch", 0, <<>>)>> ELSE <<>>)
          \o
          (IF ~(Len(local_taxonomy) <= field_length_limit)
           THEN <<Err("FieldTooLong", 0, <<>>)>> ELSE <<>>),
          local_taxonomy \in ncbi_synonyms >>

\* a dataset name check whose limit excludes the limit itself
DatasetNameStrictLimit(reference_dataset_name) ==
  (IF ~MatchPlus(reference_dataset_name, WordChars)
   THEN <<Err("RegexMismatch", 0, <<>>)>> ELSE <<>>)
  \o
  (IF ~(Len(reference_dataset_name) < field_length_limit)
   THEN <<Err("FieldTooLong", 0, <<>>)>> ELSE <<>>)

\* validate_dataset_name
ValidateDatasetName(reference_dataset_name) ==
  (IF ~MatchPlus(reference_dataset_name, WordChars)
   THEN <<Err("RegexMismatch", 0, <<>>)>> ELSE <<>>)
  \o
  (IF ~(Len(reference_dataset_name) <= field_length_limit)
   THEN <<Err("FieldTooLong", 0, <<>>)>> ELSE <<>>)

\* validate_local_taxonomy_version
ValidateLocalTaxonomyVersion(local_taxonomy_version) ==
  IF local_taxonomy_version = <<>> THEN <<>>
  ELSE (IF ~MatchPlus(local_taxonomy_version, WordChars \cup {"."})
        THEN <<Err("RegexMismatch", 0, <<>>)>> ELSE <<>>)
       \o
       (IF ~(Len(local_taxonomy_version) <= field_length_limit)
        THEN <<Err("FieldTooLong", 0, <<>>)>> ELSE <<>>)

\* validate_file_content: one error per required field that is missing
ValidateFileContent(metadata_record_dict, mandatory_record_content) ==
  LET missing == {i \in 1..Len(mandatory_record_content) :
                    ~DictHas(metadata_record_dict, mandatory_record_content[i])}
  IN  [k \in 1..Cardinality(missing) |-> Err("RequiredFieldMissing", 0, <<>>)]

\* a manifest key is a tuple of its parts, so that the numbered keys are built
Key(name) == <<name>>
\* 'CUSTOMCOLUMNHEADER' + str(i)  and  ... + 'DESCRIPTION'
CustomKey(i) == <<"CUSTOMCOLUMNHEADER", i>>
CustomDescKey(i) == <<"CUSTOMCOLUMNHEADER", i, "DESCRIPTION">>

\* generate_custom_col_dict, line 181-189: the loop over the first k pairs.
\* The value is read before the name, so the KeyError names the description
\* key when both are absent.
RECURSIVE CustomColLoop(_, _)
CustomColLoop(raw_custom_columns, k) ==
  IF k = 0 THEN [errors |-> <<>>, columns |-> <<>>]
  ELSE LET before == CustomColLoop(raw_custom_columns, k - 1)
       IN  IF ~DictHas(raw_custom_columns, CustomDescKey(k))
           THEN [before EXCEPT !.errors = Append(@, Err("ExpectedLine", 0, CustomDescKey(k)))]
           ELSE IF ~DictHas(raw_custom_columns, CustomKey(k))
           THEN [before EXCEPT !.errors = Append(@, Err("ExpectedLine", 0, CustomKey(k)))]
           ELSE [before EXCEPT !.columns = DictSet(@, DictGet(raw_custom_columns, CustomKey(k)),
                                                      DictGet(raw_custom_columns, CustomDescKey(k)))]

\* generate_custom_col_dict
GenerateCustomColDict(raw_custom_columns) ==
  LET r == CustomColLoop(raw_custom_columns, Len(raw_custom_columns) \div 2)
  IN  [errors |-> (IF Len(raw_custom_columns) % 2 # 0
                   THEN <<Err("CustomWithoutDefinition", 0, <<>>)>> ELSE <<>>) \o r.errors,
       columns |-> r.columns]

\* validate_custom_columns of the record module, line 207-225, for one entry
CustomColumnErrors(k, v) ==
  (IF ~MatchPlus(k, WordChars \cup {" "}) THEN <<Err("RegexMismatch", 0, k)>> ELSE <<>>)
  \o (IF ~MatchPlus(v, WordChars \cup {" "}) THEN <<Err("RegexMismatch", 0, v)>> ELSE <<>>)
  \o (IF Len(k) > field_length_limit THEN <<Err("FieldTooLong", 0, k)>> ELSE <<>>)
  \o (IF Len(v) > field_length_limit THEN <<Err("FieldTooLong", 0, v)>> ELSE <<>>)

RECURSIVE ValidateRecordCustomColumnsTo(_, _)
ValidateRecordCustomColumnsTo(record_custom_columns, k) ==
  IF k = 0 THEN <<>>
  ELSE ValidateRecordCustomColumnsTo(record_custom_columns, k - 1)
       \o CustomColumnErrors(record_custom_columns[k][1], record_custom_columns[k][2])

\* validate_custom_columns of the record module
ValidateRecordCustomColumns(record_custom_columns) ==
  ValidateRecordCustomColumnsTo(record_custom_columns, Len(record_custom_columns))

\* ============================================================= validateTXMB

mandatory_record_content ==
  <<Key("LOCALTAXONOMY"), Key("REFERENCEDATASETNAME"), Key("FASTA"), Key("TABLE")>>
optional_record_content == <<Key("LOCALTAXONOMYVERSION")>>

\* validate_metadata_record, line 44-65: the loop over the first k lines of
\* the manifest.  A line is its line.split(None, 1): no, one or two tokens.
\* status: "ok", "returned" (line 57) or "raised" (line 50 on a blank line).
RECURSIVE RecordLoop(_, _)
RecordLoop(record_content, k) ==
  IF k = 0
  THEN [errors |-> <<>>, metadata_record |-> <<>>, raw_custom_columns |-> <<>>,
        status |-> "ok"]
  ELSE
    LET before == RecordLoop(record_content, k - 1)
        line_content == record_content[k]
    IN  IF before.status # "ok" THEN before
        ELSE IF Len(line_content) = 0 THEN [before EXCEPT !.status = "raised"]
        ELSE IF Len(line_content) # 2
        THEN IF line_content[1] \notin SeqRange(mandatory_record_content)
             THEN before
             ELSE [before EXCEPT !.errors = Append(@, Err("MalformedLine", 0, line_content[1])),
                                 !.status = "returned"]
        ELSE IF line_content[1] \in SeqRange(mandatory_record_content)
                                    \cup SeqRange(optional_record_content)
        THEN [before EXCEPT !.metadata_record = DictSet(@, line_content[1], line_content[2])]
        ELSE [before EXCEPT !.raw_custom_columns = DictSet(@, line_content[1], line_content[2])]

\* validate_metadata_record on a manifest [found, lines]; raised is set when
\* an exception leaves the function.
ValidateMetadataRecord(manifest) ==
  LET none == [errors |-> <<>>, metadata_record |-> <<>>, record_custom_columns |-> <<>>,
               ncbi_tax |-> FALSE, raised |-> FALSE]
  IN
  IF ~manifest.found THEN [none EXCEPT !.errors = <<Err("ManifestNotFound", 0, <<>>)>>]
  ELSE
    LET l == RecordLoop(manifest.lines, Len(manifest.lines)) IN
    IF l.status = "raised" THEN [none EXCEPT !.raised = TRUE]
    ELSE IF l.status = "returned"
    THEN [none EXCEPT !.errors = l.errors, !.metadata_record = l.metadata_record]
    ELSE
      LET rec == l.metadata_record
          e1  == ValidateFileContent(rec, mandatory_record_content)
      IN
      \* line 71 and 73: a missing key is a KeyError
      IF ~DictHas(rec, Key("REFERENCEDATASETNAME")) \/ ~DictHas(rec, Key("LOCALTAXONOMY"))
      THEN [none EXCEPT !.raised = TRUE]
      ELSE
        LET e2  == ValidateDatasetName(DictGet(rec, Key("REFERENCEDATASETNAME")))
            tax == ValidateLocalTaxonomy(DictGet(rec, Key("LOCALTAXONOMY")))
        IN
        \* line 75: tax_validation[1] of the one-element list
        IF Len(tax) < 2 THEN [none EXCEPT !.raised = TRUE]
        ELSE
          LET e3 == IF DictHas(rec, Key("LOCALTAXONOMYVERSION"))
                    THEN ValidateLocalTaxonomyVersion(DictGet(rec, Key("LOCALTAXONOMYVERSION")))
                    ELSE <<>>
              gen == GenerateCustomColDict(l.raw_custom_columns)
              e4 == IF l.raw_custom_columns # <<>>
                    THEN gen.errors \o ValidateRecordCustomColumns(gen.columns)
                    ELSE <<>>
          IN  [errors |-> e1 \o e2 \o tax[1] \o e3 \o e4,
               metadata_record |-> rec,
               record_custom_columns |-> IF l.raw_custom_columns # <<>>
                                         THEN gen.columns ELSE <<>>,
               ncbi_tax |-> tax[2],
               raised |-> FALSE]

\* validate_metadata_table, line 163-186: the checks of one row, each error
\* prefixed with the row's number
ValidateRow(row, ncbi, current_record) ==
  LET acc == ValidateInsdcSequenceAccession(row.insdc_sequence_accession)
      org == ValidateLocalOrganismName(row.local_organism_name, ncbi, row.lookup)
      row_errors ==
        ValidateIdentifier(row.local_identifier)
        \o acc.errors
        \o ValidateInsdcSequenceRange(row.insdc_sequence_range, acc.accession_present)
        \o org.errors
        \o ValidateLocalLineage(row.local_lineage)
        \o ValidateNcbiTaxId(row.ncbi_tax_id, org.ids, ncbi, row.local_organism_name)
  IN  [errors |-> [i \in 1..Len(row_errors) |-> [row_errors[i] EXCEPT !.line = current_record]],
       raised |-> org.raised]

\* validate_metadata_table, line 148-188: the loop over the first k rows
RECURSIVE RowLoop(_, _, _)
RowLoop(rows, ncbi, k) ==
  IF k = 0 THEN [errors |-> <<>>, local_identifiers |-> <<>>, raised |-> FALSE]
  ELSE LET before == RowLoop(rows, ncbi, k - 1)
           r == ValidateRow(rows[k], ncbi, k)
       IN  IF before.raised THEN before
           ELSE IF r.raised
           THEN [before EXCEPT !.local_identifiers = Append(@, rows[k].local_identifier),
                               !.raised = TRUE]
           ELSE [before EXCEPT !.local_identifiers = Append(@, rows[k].local_identifier),
                               !.errors = @ \o r.errors]

\* validate_metadata_table on a table [status, headers, rows]
ValidateMetadataTable(table, record_custom_columns, ncbi) ==
  IF table.status = "not_found"
  THEN [errors |-> <<Err("TableNotFound", 0, <<>>)>>, local_identifiers |-> <<>>,
        raised |-> FALSE]
  ELSE IF table.status = "unreadable"
  THEN [errors |-> <<Err("TableUnreadable", 0, <<>>)>>, local_identifiers |-> <<>>,
        raised |-> FALSE]
  ELSE
    LET mh == ValidateMandatoryHeaders(table.headers, mandatory_headers)
        header_errors ==
          ValidateNumberOfColumns(mandatory_headers, table.headers, record_custom_columns)
          \o mh.errors
          \o ValidateTableCustomColumns(mh.table_custom_headers, record_custom_columns)
    IN
    \* line 151-161: reading a missing mandatory column of the first row
    IF table.rows # <<>> /\ ~(SeqRange(mandatory_headers) \subseteq SeqRange(table.headers))
    THEN [errors |-> Append(header_errors, Err("MandatoryColumnMissing", 0, <<>>)),
          local_identifiers |-> <<>>, raised |-> FALSE]
    ELSE
      LET l == RowLoop(table.rows, ncbi, Len(table.rows))
      IN  IF l.raised THEN [l EXCEPT !.errors = header_errors \o @]
          ELSE [errors |-> header_errors \o l.errors \o DuplicateIdErrors(l.local_identifiers),
                local_identifiers |-> l.local_identifiers,
                raised |-> FALSE]

\* report_errors: the lines written; 'ERROR: ' + error raises TypeError for an
\* error that is an exception object, after the file was opened for writing
RECURSIVE ReportErrors(_, _)
ReportErrors(error_messages, k) ==
  IF k = 0 THEN [lines |-> <<>>, raised |-> FALSE]
  ELSE LET before == ReportErrors(error_messages, k - 1)
       IN  IF before.raised THEN before
           ELSE IF error_messages[k].kind = "OpenException"
           THEN [before EXCEPT !.raised = TRUE]
           ELSE [before EXCEPT !.lines = Append(@, error_messages[k])]

\* line 255-258
ReportFilename(metadata_record) ==
  IF DictHas(metadata_record, Key("REFERENCEDATASETNAME"))
  THEN DictGet(metadata_record, Key("REFERENCEDATASETNAME")) \o <<".report">>
  ELSE <<"unamed_record.report">>

\* a stage whose errors are never looked at
NeverFailed(errors) == FALSE

\* line 260, 270 and 279: the stage's errors end validate_txmb
RecordFailed(errors) == errors # <<>>
TableFailed(errors) == errors # <<>>
FastaFailed(errors) == errors # <<>>

\* ------------------------------------------------------------------ state

VARIABLES
  \* validate_txmb_fasta: its argument, the lines read so far, its locals
  table_identifiers, fasta_lines, fasta_errors, linecount, line_flag,
  remaining_ids, fasta_pc,
  \* history: the place in table_identifiers of each entry of remaining_ids,
  \* and one record per list.pop: [pos, line, hit]
  remaining_pos, ledger_log,
  \* a field validator applied to an argument: the call and what it returned
  f_call, f_ret,
  \* validate_txmb: its position, its locals, the report file written (none,
  \* or one [name, lines]) and the value returned; stages is the history of
  \* the stages started, manifest_file the manifest that the first stage read,
  \* fasta_file the FASTA file that the last stage was given
  pc, stages, manifest_file, fasta_file, metadata_record_errors, metadata_record, record_custom_columns,
  ncbi_tax, metadata_table_errors, local_identifiers, txmb_fasta_errors,
  report, result

fastaVars == <<table_identifiers, fasta_lines, fasta_errors, linecount, line_flag,
               remaining_ids, fasta_pc, remaining_pos, ledger_log>>
fieldVars == <<f_call, f_ret>>
txmbVars == <<pc, stages, manifest_file, fasta_file, metadata_record_errors, metadata_record, record_custom_columns,
              ncbi_tax, metadata_table_errors, local_identifiers, txmb_fasta_errors,
              report, result>>
vars == <<fastaVars, fieldVars, txmbVars>>

FastaIdle ==
  /\ table_identifiers = <<>> /\ fasta_lines = <<>> /\ fasta_errors = <<>>
  /\ linecount = 0 /\ line_flag = "" /\ remaining_ids = <<>>
  /\ fasta_pc = "idle" /\ remaining_pos = <<>> /\ ledger_log = <<>>

FieldIdle == f_call = [fn |-> "none"] /\ f_ret = <<>>

\* validateTXMB.py line 243-250
TxmbStart(at) ==
  /\ pc = at /\ stages = <<>>
  /\ manifest_file = [found |-> FALSE, lines |-> <<>>]
  /\ fasta_file = [exists |-> FALSE, lines |-> <<>>]
  /\ metadata_record_errors = <<>> /\ metadata_record = <<>>
  /\ record_custom_columns = <<>> /\ ncbi_tax = FALSE
  /\ metadata_table_errors = <<>> /\ local_identifiers = <<>>
  /\ txmb_fasta_errors = <<>>
  /\ report = <<>> /\ result = "none"

TxmbIdle == TxmbStart("idle")

\* ------------------------------------------- validate_txmb_fasta, by line

\* identifiers of the table and lines of the file the checks draw from
TableIdSet == {<<"a">>, <<"b">>}

FastaLineSet ==
  { <<">", "a", "|", NL>>, <<">", "b", "|", NL>>, <<">", "a", NL>>,
    <<"A", NL>>, <<NL>>, <<"e", NL>> }

FastaState ==
  [fasta_errors |-> fasta_errors, linecount |-> linecount, line_flag |-> line_flag,
   remaining_ids |-> remaining_ids, raised |-> fasta_pc = "raised"]

\* line 25-28
FastaInit ==
  /\ table_identifiers \in SeqsUpTo(TableIdSet, MaxIds)
  /\ fasta_lines = <<>>
  /\ fasta_errors = <<>> /\ linecount = 0 /\ line_flag = ""
  /\ remaining_ids = table_identifiers
  /\ remaining_pos = [i \in 1..Len(table_identifiers) |-> i]
  /\ ledger_log = <<>>
  /\ fasta_pc = "open"
  /\ FieldIdle /\ TxmbIdle

\* line 30-37: gzip.open raises, the exception itself is the one error
FastaOpenFails ==
  /\ fasta_pc = "open"
  /\ fasta_errors' = ValidateTxmbFasta([exists |-> FALSE, lines |-> <<>>],
                                        table_identifiers).fasta_errors
  /\ fasta_pc' = "done"
  /\ UNCHANGED <<table_identifiers, fasta_lines, linecount, line_flag,
                 remaining_ids, remaining_pos, ledger_log, fieldVars, txmbVars>>

FastaOpen ==
  /\ fasta_pc = "open"
  /\ fasta_pc' = "loop"
  /\ UNCHANGED <<table_identifiers, fasta_lines, fasta_errors, linecount, line_flag,
                 remaining_ids, remaining_pos, ledger_log, fieldVars, txmbVars>>

\* line 39-60: the next line of the file
FastaReadLine ==
  /\ fasta_pc = "loop"
  /\ linecount < MaxLines
  /\ \E line \in FastaLineSet :
       LET st  == FastaLine(FastaState, line)
           pop == IsIdLine(line) /\ line_flag \in {"se", ""} /\ ~st.raised
           r   == CheckIdentifier(line, remaining_ids, linecount + 1)
       IN  /\ fasta_lines' = Append(fasta_lines, line)
           /\ fasta_errors' = st.fasta_errors
           /\ linecount' = st.linecount
           /\ line_flag' = st.line_flag
           /\ remaining_ids' = st.remaining_ids
           /\ fasta_pc' = IF st.raised THEN "raised" ELSE "loop"
           /\ remaining_pos' = IF pop THEN ListPop(remaining_pos, r.id_index)
                               ELSE remaining_pos
           /\ ledger_log' = IF pop
                            THEN Append(ledger_log,
                                        [pos |-> remaining_pos[r.id_index + 1],
                                         line |-> linecount + 1,
                                         hit |-> r.errors = <<>>])
                            ELSE ledger_log
  /\ UNCHANGED <<table_identifiers, fieldVars, txmbVars>>

\* line 62-75: the file is exhausted
FastaEndOfFile ==
  /\ fasta_pc = "loop"
  /\ fasta_errors' = FastaClose(FastaState).fasta_errors
  /\ fasta_pc' = "done"
  /\ UNCHANGED <<table_identifiers, fasta_lines, linecount, line_flag,
                 remaining_ids, remaining_pos, ledger_log, fieldVars, txmbVars>>

FastaNext == FastaOpenFails \/ FastaOpen \/ FastaReadLine \/ FastaEndOfFile

SpecFasta == FastaInit /\ [][FastaNext]_vars

\* ------------------------------------ the field validators, one call each

\* rows of one table
MaxRows == 2
\* suggestions in an answer of the taxonomy service
MaxSuggestions == 2

TxmbRowSet ==
  [ local_identifier : {<<"a">>, <<"b">>, <<>>, <<"$">>},
    insdc_sequence_accession : {<<>>},
    insdc_sequence_range : {<<>>},
    local_organism_name : {<<"H", " ", "s">>},
    local_lineage : {<<>>},
    ncbi_tax_id : {0, 96},
    lookup : {[kind |-> "list", ids |-> << <<"9", "6">> >>],
              [kind |-> "connection_error", ids |-> <<>>]} ]

\* the header line of a table: the mandatory headers in order and reversed,
\* with a custom column, without the first, and with the first under
\* another name
TableHeadersSet ==
  { mandatory_headers,
    [i \in 1..Len(mandatory_headers) |-> mandatory_headers[Len(mandatory_headers) + 1 - i]],
    Append(mandatory_headers, <<"x">>),
    Tail(mandatory_headers),
    Append(Tail(mandatory_headers), <<"x">>),
    Append(Append(Tail(mandatory_headers), <<"x">>), <<"y">>) }

TableSet ==
  { [status |-> "not_found", headers |-> <<>>, rows |-> <<>>],
    [status |-> "unreadable", headers |-> <<>>, rows |-> <<>>] }
  \cup
  { [status |-> "ok", headers |-> h, rows |-> r] :
      h \in TableHeadersSet, r \in SeqsUpTo(TxmbRowSet, MaxRows) }

\* the tables handed to validate_metadata_table on its own: more rows, each
\* without taxon ID
MaxFieldRows == 3

FieldRowSet == {r \in TxmbRowSet : r.ncbi_tax_id = 0}

FieldTableSet ==
  { [status |-> "not_found", headers |-> <<>>, rows |-> <<>>],
    [status |-> "unreadable", headers |-> <<>>, rows |-> <<>>] }
  \cup
  { [status |-> "ok", headers |-> h, rows |-> r] :
      h \in TableHeadersSet, r \in SeqsUpTo(FieldRowSet, MaxFieldRows) }

\* length of the ranges and of the taxonomy names handed to the validators
MaxRangeLen == 4
MaxTaxLen == 4

SequenceLineAlphabet == {"A", "e", " ", "1", NL}
RangeAlphabet == {"<", ">", ".", "1", "x"}
AccessionSet == {<<>>, <<"A", "1", "2", "3", "4", "5">>, <<"x">>}
TaxonomyAlphabet == {"N", "n", "C", "c", "B", "b", "I", "i", " "}

FieldInit == FastaIdle /\ FieldIdle /\ TxmbIdle

CallCheckSequence ==
  /\ f_call.fn = "none"
  /\ \E s \in SeqsUpTo(SequenceLineAlphabet, MaxStr), lc \in 1..2 :
       /\ f_call' = [fn |-> "check_sequence", args |-> <<s, lc>>]
       /\ f_ret' = CheckSequence(s, lc)
  /\ UNCHANGED <<fastaVars, txmbVars>>

\* validateTXMB.py line 166-171: the range is validated with the flag the
\* accession validator returned for the same row
CallValidateInsdcSequenceRange ==
  /\ f_call.fn = "none"
  /\ \E r \in SeqsUpTo(RangeAlphabet, MaxRangeLen), acc \in AccessionSet :
       LET a == ValidateInsdcSequenceAccession(acc)
       IN  /\ f_call' = [fn |-> "validate_insdc_sequence_range",
                         args |-> <<r, a.accession_present, acc, a.errors>>]
           /\ f_ret' = ValidateInsdcSequenceRange(r, a.accession_present)
  /\ UNCHANGED <<fastaVars, txmbVars>>

\* values around the length limit: n times the same character, alone or
\* behind one character that the pattern does or does not allow
MaxOver == 2

LongValue(head, c, n) == head \o [i \in 1..(n - Len(head)) |-> c]

BoundaryValueSet ==
  { LongValue(head, c, n) :
      head \in {<<>>, <<"$">>, <<" ">>, <<"_">>}, c \in {"a", "7"},
      n \in (field_length_limit - MaxOver)..(field_length_limit + MaxOver) }

CallValidateLocalTaxonomy ==
  /\ f_call.fn = "none"
  /\ \E t \in SeqsUpTo(TaxonomyAlphabet, MaxTaxLen) \cup BoundaryValueSet :
       /\ f_call' = [fn |-> "validate_local_taxonomy", args |-> <<t>>]
       /\ f_ret' = ValidateLocalTaxonomy(t)
  /\ UNCHANGED <<fastaVars, txmbVars>>

\* entries of the raw custom column mapping, and the highest pair number used
MaxCustom == 4
MaxPairs == 2

\* the unrecognised keys of a manifest: numbered headers, their descriptions
\* and one key of another name
CustomKeySet ==
  {CustomKey(i) : i \in 1..MaxPairs} \cup {CustomDescKey(i) : i \in 1..MaxPairs}
  \cup {Key("COMMENT")}

\* the value of a key: names "h1", "h2", descriptions "d1", "d2"
CustomValue(key) ==
  IF Len(key) = 1 THEN <<"c">>
  ELSE IF Len(key) = 2 THEN <<"h", IF key[2] = 1 THEN "1" ELSE IF key[2] = 2 THEN "2" ELSE "3">>
  ELSE <<"d", IF key[2] = 1 THEN "1" ELSE IF key[2] = 2 THEN "2" ELSE "3">>

\* raw_custom_columns: an ordered mapping with distinct keys
RawCustomSet ==
  { [i \in 1..Len(ks) |-> <<ks[i], CustomValue(ks[i])>>] :
      ks \in {q \in SeqsUpTo(CustomKeySet, MaxCustom) : Cardinality(SeqRange(q)) = Len(q)} }

CallGenerateCustomColDict ==
  /\ f_call.fn = "none"
  /\ \E raw \in RawCustomSet :
       /\ f_call' = [fn |-> "generate_custom_col_dict", args |-> <<raw>>]
       /\ f_ret' = GenerateCustomColDict(raw)
  /\ UNCHANGED <<fastaVars, txmbVars>>

\* custom headers of a table, and columns of a contract
MaxHeaders == 3
MaxContract == 2

HeaderNameSet == {<<"x">>, <<"y">>, <<"z">>}

\* record_custom_columns: distinct names, each with a description
ContractSet ==
  { [i \in 1..Len(ns) |-> <<ns[i], <<"d">>>>] :
      ns \in {q \in SeqsUpTo(HeaderNameSet, MaxContract) : Cardinality(SeqRange(q)) = Len(q)} }

CallValidateTableCustomColumns ==
  /\ f_call.fn = "none"
  /\ \E t \in SeqsUpTo(HeaderNameSet, MaxHeaders), c \in ContractSet :
       /\ f_call' = [fn |-> "validate_custom_columns", args |-> <<t, c>>]
       /\ f_ret' = ValidateTableCustomColumns(t, c)
  /\ UNCHANGED <<fastaVars, txmbVars>>

OrganismNameSet ==
  {<<>>, <<"H", " ", "s">>, <<"H">>, <<"H", " ">>, <<"1", " ", "s">>, <<"H", "\t", "s">>}

\* what the taxonomy service answers
LookupSet ==
  { [kind |-> k, ids |-> <<>>] :
      k \in {"connection_error", "builtin_connection_error", "not_json", "json_object"} }
  \cup
  { [kind |-> "list", ids |-> l] : l \in SeqsUpTo({<<"9", "6">>, <<"7">>}, MaxSuggestions) }

CallValidateLocalOrganismName ==
  /\ f_call.fn = "none"
  /\ \E name \in OrganismNameSet, ncbi \in BOOLEAN, lookup \in LookupSet :
       /\ f_call' = [fn |-> "validate_local_organism_name", args |-> <<name, ncbi, lookup>>]
       /\ f_ret' = ValidateLocalOrganismName(name, ncbi, lookup)
  /\ UNCHANGED <<fastaVars, txmbVars>>

TaxIdSet == {0, 7, 96}

CallValidateNcbiTaxId ==
  /\ f_call.fn = "none"
  /\ \E id \in TaxIdSet, expected \in SeqsUpTo(TaxIdSet, MaxSuggestions),
        ncbi \in BOOLEAN, name \in OrganismNameSet :
       /\ f_call' = [fn |-> "validate_ncbi_tax_id", args |-> <<id, expected, ncbi, name>>]
       /\ f_ret' = ValidateNcbiTaxId(id, expected, ncbi, name)
  /\ UNCHANGED <<fastaVars, txmbVars>>

CallValidateMetadataTable ==
  /\ f_call.fn = "none"
  /\ \E table \in FieldTableSet, c \in {<<>>, << <<<<"x">>, <<"d">>>> >>}, ncbi \in BOOLEAN :
       /\ f_call' = [fn |-> "validate_metadata_table", args |-> <<table, c, ncbi>>]
       /\ f_ret' = ValidateMetadataTable(table, c, ncbi)
  /\ UNCHANGED <<fastaVars, txmbVars>>

\* lines of the FASTA file of a submission
MaxFileLines == 2

FastaFileSet ==
  { [exists |-> FALSE, lines |-> <<>>] }
  \cup
  { [exists |-> TRUE, lines |-> l] : l \in SeqsUpTo(FastaLineSet, MaxFileLines) }

DatasetNameAlphabet == {"d", "_", "$", " "}

CallValidateDatasetName ==
  /\ f_call.fn = "none"
  /\ \E n \in (SeqsUpTo(DatasetNameAlphabet, MaxStr) \ {<<>>}) \cup BoundaryValueSet :
       /\ f_call' = [fn |-> "validate_dataset_name", args |-> <<n>>]
       /\ f_ret' = ValidateDatasetName(n)
  /\ UNCHANGED <<fastaVars, txmbVars>>

\* identifier cells: strings, and columns that the decoder read as numbers
IdentifierAlphabet == {"a", "1", "_", "$", NL}

IdentifierCellSet ==
  { [type |-> "str", value |-> v] :
      v \in SeqsUpTo(IdentifierAlphabet, MaxStr) \cup BoundaryValueSet }
  \cup
  { [type |-> "int", value |-> v] : v \in {<<"0">>, <<"7">>, <<"1", "2">>} }
  \cup
  { [type |-> "float", value |-> v] : v \in {<<"n", "a", "n">>, <<"1", ".", "5">>} }

CallValidateIdentifier ==
  /\ f_call.fn = "none"
  /\ \E cell \in IdentifierCellSet :
       /\ f_call' = [fn |-> "validate_identifier", args |-> <<cell>>]
       /\ f_ret' = ValidateIdentifierCell(cell)
  /\ UNCHANGED <<fastaVars, txmbVars>>

\* identifier lines with and without '|', with and without line terminator
IdLineSet ==
  { <<">", "a", "|", NL>>, <<">", "b", "|", "x", NL>>, <<">", "a", NL>>,
    <<">", "a">>, <<">", "c", "|", NL>>, <<">", "|", NL>> }

\* check_identifier on a line and a ledger; list.index leaves the list as it is
CallCheckIdentifier ==
  /\ f_call.fn = "none"
  /\ \E line \in IdLineSet, ledger \in SeqsUpTo(TableIdSet, MaxIds), lc \in 1..2 :
       LET r == CheckIdentifier(line, ledger, lc)
       IN  /\ f_call' = [fn |-> "check_identifier", args |-> <<line, ledger, lc>>]
           /\ f_ret' = [errors |-> r.errors, id_index |-> r.id_index,
                        remaining_ids |-> ledger]
  /\ UNCHANGED <<fastaVars, txmbVars>>

\* two calls in succession with the same argument objects: the second call
\* sees each list as the first call left it
CallValidateMandatoryHeadersTwice ==
  /\ f_call.fn = "none"
  /\ \E h \in TableHeadersSet :
       LET first == ValidateMandatoryHeaders(h, mandatory_headers)
       IN  /\ f_call' = [fn |-> "validate_mandatory_headers twice", args |-> <<h>>]
           /\ f_ret' = [first |-> first.errors,
                        second |-> ValidateMandatoryHeaders(first.table_custom_headers,
                                                            mandatory_headers).errors]
  /\ UNCHANGED <<fastaVars, txmbVars>>

CallValidateTableCustomColumnsTwice ==
  /\ f_call.fn = "none"
  /\ \E t \in SeqsUpTo(HeaderNameSet, MaxHeaders), c \in ContractSet :
       /\ f_call' = [fn |-> "validate_custom_columns twice", args |-> <<t, c>>]
       /\ f_ret' = [first |-> ValidateTableCustomColumns(t, c),
                    second |-> ValidateTableCustomColumns(TableCustomColumnsAfter(t, c), c)]
  /\ UNCHANGED <<fastaVars, txmbVars>>

\* line 28: the function works on a copy, the caller's list stays as it was
CallValidateTxmbFastaTwice ==
  /\ f_call.fn = "none"
  /\ \E file \in FastaFileSet, ids \in SeqsUpTo(TableIdSet, MaxIds) :
       /\ f_call' = [fn |-> "validate_txmb_fasta twice", args |-> <<file, ids>>]
       /\ f_ret' = [first |-> ValidateTxmbFasta(file, ids),
                    second |-> ValidateTxmbFasta(file, ids)]
  /\ UNCHANGED <<fastaVars, txmbVars>>

FieldNext ==
  \/ CallCheckIdentifier
  \/ CallValidateIdentifier
  \/ CallValidateDatasetName
  \/ CallValidateMandatoryHeadersTwice
  \/ CallValidateTableCustomColumnsTwice
  \/ CallValidateTxmbFastaTwice
  \/ CallValidateNcbiTaxId
  \/ CallValidateLocalOrganismName
  \/ CallValidateMetadataTable
  \/ CallValidateTableCustomColumns
  \/ CallCheckSequence
  \/ CallValidateInsdcSequenceRange
  \/ CallValidateLocalTaxonomy
  \/ CallGenerateCustomColDict

SpecFields == FieldInit /\ [][FieldNext]_vars

\* ------------------------------------------------ validate_txmb, by stage

Chars4(a, b, c, d) == <<a, b, c, d>>

\* the manifest: per key no line, a line with a value, or the key alone
TaxonomyLines ==
  { <<>>, << <<Key("LOCALTAXONOMY"), Chars4("N", "C", "B", "I")>> >>,
    << <<Key("LOCALTAXONOMY"), <<"t">>>> >>, << <<Key("LOCALTAXONOMY")>> >> }
DatasetNameLines ==
  { <<>>, << <<Key("REFERENCEDATASETNAME"), <<"d">>>> >>,
    << <<Key("REFERENCEDATASETNAME"), <<"$">>>> >> }
FastaNameLines == { <<>>, << <<Key("FASTA"), <<"f">>>> >> }
TableNameLines == { <<>>, << <<Key("TABLE"), <<"t">>>> >> }
VersionLines == { <<>>, << <<Key("LOCALTAXONOMYVERSION"), <<"1">>>> >> }
\* a blank line, an unknown key alone, a custom column, half a custom column
OtherLines ==
  { <<>>, << <<>> >>, << <<Key("COMMENT")>> >>,
    << <<CustomKey(1), <<"x">>>>, <<CustomDescKey(1), <<"y">>>> >>,
    << <<CustomKey(1), <<"x">>>> >> }

ManifestSet ==
  { [found |-> FALSE, lines |-> <<>>] }
  \cup
  { [found |-> TRUE, lines |-> t \o n \o f \o b \o v \o o] :
      t \in TaxonomyLines, n \in DatasetNameLines, f \in FastaNameLines,
      b \in TableNameLines, v \in VersionLines, o \in OtherLines }

TxmbInit == FastaIdle /\ FieldIdle /\ TxmbStart("record")

\* what report_errors leaves behind and where validate_txmb goes from there
ReportAndReturn(record, errors, message) ==
  LET w == ReportErrors(errors, Len(errors))
  IN  /\ report' = <<[name |-> ReportFilename(record), lines |-> w.lines]>>
      /\ pc' = IF w.raised THEN "raised" ELSE "returned"
      /\ result' = IF w.raised THEN "none" ELSE message

\* line 252-263
StageRecord ==
  /\ pc = "record"
  /\ stages' = Append(stages, "record")
  /\ \E manifest \in ManifestSet :
       LET r == ValidateMetadataRecord(manifest)
       IN  /\ manifest_file' = manifest
           /\ metadata_record_errors' = r.errors
           /\ metadata_record' = r.metadata_record
           /\ record_custom_columns' = r.record_custom_columns
           /\ ncbi_tax' = r.ncbi_tax
           /\ IF r.raised
              THEN pc' = "raised" /\ UNCHANGED <<report, result>>
              ELSE IF RecordFailed(r.errors)
              THEN ReportAndReturn(r.metadata_record, r.errors, "Could not validate metadata record")
              ELSE pc' = "table" /\ UNCHANGED <<report, result>>
  /\ UNCHANGED <<fasta_file, metadata_table_errors, local_identifiers, txmb_fasta_errors,
                 fastaVars, fieldVars>>

\* line 265-273
StageTable ==
  /\ pc = "table"
  /\ stages' = Append(stages, "table")
  /\ \E table \in TableSet :
       LET r == ValidateMetadataTable(table, record_custom_columns, ncbi_tax)
       IN  IF r.raised
           THEN /\ pc' = "raised"
                /\ UNCHANGED <<metadata_table_errors, local_identifiers, report, result>>
           ELSE /\ metadata_table_errors' = r.errors
                /\ local_identifiers' = r.local_identifiers
                /\ IF TableFailed(r.errors)
                   THEN ReportAndReturn(metadata_record, r.errors, "Could not validate table")
                   ELSE pc' = "fasta" /\ UNCHANGED <<report, result>>
  /\ UNCHANGED <<manifest_file, fasta_file, metadata_record_errors, metadata_record,
                 record_custom_columns, ncbi_tax, txmb_fasta_errors, fastaVars, fieldVars>>

\* line 275-284
StageFasta ==
  /\ pc = "fasta"
  /\ stages' = Append(stages, "fasta")
  /\ \E file \in FastaFileSet :
       LET r == ValidateTxmbFasta(file, local_identifiers)
       IN  /\ fasta_file' = file
           /\ IF r.raised
              THEN pc' = "raised" /\ UNCHANGED <<txmb_fasta_errors, report, result>>
              ELSE /\ txmb_fasta_errors' = r.fasta_errors
                   /\ IF FastaFailed(r.fasta_errors)
                      THEN ReportAndReturn(metadata_record, r.fasta_errors,
                                           "Could not validate fasta")
                      ELSE pc' = "returned" /\ result' = "False" /\ UNCHANGED report
  /\ UNCHANGED <<manifest_file, metadata_record_errors, metadata_record,
                 record_custom_columns, ncbi_tax, metadata_table_errors, local_identifiers,
                 fastaVars, fieldVars>>

Next == StageRecord \/ StageTable \/ StageFasta

Spec == TxmbInit /\ [][Next]_vars

\* ================================================================== claims

\* the function returned after reading the whole file (not from a failed open)
FileConsumed == fasta_pc = "done" /\ CountKind(fasta_errors, "OpenException") = 0

\* a step of the loop, and the line it read
ReadStep == fasta_pc = "loop" /\ Len(fasta_lines') = Len(fasta_lines) + 1
LineRead == fasta_lines'[Len(fasta_lines')]

\* entry i of the table list left the ledger through exactly one matching line
MatchedOnce(i) ==
  Cardinality({k \in 1..Len(ledger_log) : ledger_log[k].pos = i /\ ledger_log[k].hit}) = 1

\* entry i of the table list is named in an unmatched-identifiers message
Reported(i) ==
  \E k \in 1..Len(remaining_pos) :
    /\ remaining_pos[k] = i
    /\ \E j \in 1..Len(fasta_errors), n \in k..Len(remaining_ids) :
         /\ fasta_errors[j].kind = "IdsNotInFasta"
         /\ fasta_errors[j].text = UnmatchedText(remaining_ids, n)

\* C1: after the whole file is consumed, every entry of the table identifier
\* list was either removed by exactly one matching identifier line or is
\* listed in the unmatched-identifiers report, never both and never neither.
C1_MatchedXorReported ==
  FileConsumed =>
    \A i \in 1..Len(table_identifiers) : MatchedOnce(i) # Reported(i)

\* validate_txmb is over, by a return or by an exception
Terminated == pc \in {"returned", "raised"}

\* C2: the stages start in the order manifest, table, FASTA, and a stage is
\* never started after an earlier stage produced an error: no table stage
\* after manifest errors, no FASTA stage after table errors.
C2_StagesInOrderFailFast ==
  /\ stages = SubSeq(<<"record", "table", "fasta">>, 1, Len(stages))
  /\ Len(stages) >= 2 => metadata_record_errors = <<>>
  /\ Len(stages) >= 3 => metadata_table_errors = <<>>

\* a table with errors ended the run before the FASTA stage
C2_Witness ==
  /\ pc = "returned"
  /\ stages = <<"record", "table">>
  /\ metadata_record_errors = <<>>
  /\ metadata_table_errors # <<>>
  /\ result = "Could not validate table"

\* the error list of the first stage that produced one
FirstFailed ==
  IF metadata_record_errors # <<>> THEN metadata_record_errors
  ELSE IF metadata_table_errors # <<>> THEN metadata_table_errors
  ELSE txmb_fasta_errors

\* C3: once every started stage has handed back its error list,
\* validate_txmb returns False exactly when the three lists are empty, and
\* otherwise returns the failure message with the report holding exactly the
\* error list of the first stage that failed.
C3_FalseIffNoErrors ==
  (Terminated /\ (pc = "raised" => FirstFailed # <<>>)) =>
    IF FirstFailed = <<>>
    THEN result = "False" /\ report = <<>>
    ELSE /\ result \notin {"False", "none"}
         /\ report # <<>>
         /\ report[1].lines = FirstFailed

\* the lines alternate identifier line / sequence line, identifier line first
Alternates(lines) == \A i \in 1..Len(lines) : IsIdLine(lines[i]) <=> (i % 2 = 1)

\* C4: a file whose lines do not strictly alternate identifier / sequence
\* starting with an identifier line gets at least one error, whatever the
\* parity of its line count.
C4_MisorderedFileHasError ==
  (FileConsumed /\ ~Alternates(fasta_lines)) => fasta_errors # <<>>

\* C5: an identifier line right after an identifier line adds exactly one
\* "Two consecutive ID lines" error with the second line's number, leaves the
\* ledger alone and keeps the state AwaitingSequence; the sequence line that
\* follows is then consumed as a sequence line.
C5_SecondIdLineFlagged ==
  [][ (ReadStep /\ line_flag = "id") =>
        /\ IsIdLine(LineRead) =>
             /\ fasta_errors' = Append(fasta_errors,
                                       Err("TwoIdLines", Len(fasta_lines'), <<>>))
             /\ remaining_ids' = remaining_ids
             /\ line_flag' = "id"
             /\ fasta_pc' = "loop"
        /\ ~IsIdLine(LineRead) =>
             /\ line_flag' = "se"
             /\ remaining_ids' = remaining_ids
             /\ CountKind(fasta_errors', "TwoSeqLines") = CountKind(fasta_errors, "TwoSeqLines")
             /\ CountKind(fasta_errors', "TwoIdLines") = CountKind(fasta_errors, "TwoIdLines")
    ]_vars

C5_Witness ==
  /\ Len(fasta_lines) = 3
  /\ IsIdLine(fasta_lines[1]) /\ IsIdLine(fasta_lines[2]) /\ ~IsIdLine(fasta_lines[3])
  /\ line_flag = "se"
  /\ fasta_errors = <<Err("TwoIdLines", 2, <<>>)>>
  /\ Len(remaining_ids) = Len(table_identifiers) - 1

\* C6: validate_txmb_fasta never raises, whatever the identifier list; an
\* identifier line consumed in AwaitingIdentifier whose identifier is not in
\* the ledger adds a "does not match anything in metadata table" error with
\* that line's number, and the lines after it are still processed.
C6_UnmatchedLineReportedNoRaise ==
  [][ ReadStep =>
        /\ fasta_pc' # "raised"
        /\ ( /\ IsIdLine(LineRead)
             /\ line_flag \in {"se", ""}
             /\ FastaIdentifier(LineRead) \notin SeqRange(remaining_ids) )
           => /\ fasta_errors' = Append(fasta_errors,
                     Err("IdNotInTable", Len(fasta_lines'), FastaIdentifier(LineRead)))
              /\ fasta_pc' = "loop"
    ]_vars

\* the identifier an identifier line states: the text between the leading '>'
\* and the first '|', or the end of the line when there is no '|'
StatedIdentifier(line) ==
  LET body == BeforeEnd(line)
      cut  == FirstPos(body, "|")
  IN  SubSeq(body, 2, IF cut = 0 THEN Len(body) ELSE cut - 1)

ValidId(id) == Len(id) \in 1..field_length_limit /\ AllIn(id, WordChars)

\* one identifier line and one non-empty nucleotide line per identifier
BuiltFrom(lines, ids) ==
  /\ Len(lines) = 2 * Len(ids)
  /\ \A k \in 1..Len(ids) :
       /\ IsIdLine(lines[2*k - 1])
       /\ ~IsIdLine(lines[2*k])
       /\ BeforeEnd(lines[2*k]) # <<>>
       /\ AllIn(BeforeEnd(lines[2*k]), NucleotideChars)
  /\ {StatedIdentifier(lines[2*k - 1]) : k \in 1..Len(ids)} = SeqRange(ids)

\* C7: a FASTA file built from a list of distinct valid identifiers, one
\* identifier line and one non-empty nucleotide line per identifier in any
\* order, gets zero errors, and the table validator has no identifier or
\* duplicate error for that list.
C7_RoundTripNoErrors ==
  ( /\ FileConsumed
    /\ Cardinality(SeqRange(table_identifiers)) = Len(table_identifiers)
    /\ \A i \in 1..Len(table_identifiers) : ValidId(table_identifiers[i])
    /\ BuiltFrom(fasta_lines, table_identifiers) )
  => /\ fasta_errors = <<>>
     /\ \A i \in 1..Len(table_identifiers) :
          ValidateIdentifier(table_identifiers[i]) = <<>>
     /\ DuplicateIdErrors(table_identifiers) = <<>>

Called(fn) == f_call.fn = fn

\* C8: check_sequence('') returns exactly one error, the "is null" error,
\* and no "could not be diagnosed" error.
C8_EmptyLineIsNull ==
  (Called("check_sequence") /\ f_call.args[1] = <<>>) =>
     f_ret = <<Err("SeqNull", f_call.args[2], <<>>)>>

\* C9: validate_insdc_sequence_range returns no error for an empty range
\* whatever accession_present is; a non-empty range without a present
\* accession gets exactly one range-without-accession error and, apart from
\* that, one format error exactly when it does not match the range pattern;
\* the flag handed over by validate_insdc_sequence_accession is true for
\* every non-empty accession, valid or not.
C9_RangeErrors ==
  Called("validate_insdc_sequence_range") =>
    LET range   == f_call.args[1]
        present == f_call.args[2]
        acc     == f_call.args[3]
    IN  /\ present = (acc # <<>>)
        /\ range = <<>> => f_ret = <<>>
        /\ range # <<>> =>
             /\ CountKind(f_ret, "RangeWithoutAccession") = (IF present THEN 0 ELSE 1)
             /\ CountKind(f_ret, "RangeInvalid") = (IF MatchRange(range) THEN 0 ELSE 1)
             /\ Len(f_ret) = CountKind(f_ret, "RangeWithoutAccession")
                             + CountKind(f_ret, "RangeInvalid")

\* scenario D and its ill-formed twin: both errors for a bad range without
\* accession, and an invalid accession that still counts as present
C9_Witness ==
  /\ Called("validate_insdc_sequence_range")
  /\ f_call.args[1] = <<"1", ".", ".", "x">>
  /\ f_call.args[3] = <<>>
  /\ Len(f_ret) = 2

LowerCase(c) ==
  CASE c = "N" -> "n" [] c = "C" -> "c" [] c = "B" -> "b" [] c = "I" -> "i"
    [] OTHER -> c

RECURSIVE Strip(_)
Strip(s) ==
  IF s = <<>> THEN s
  ELSE IF s[1] \in Whitespace THEN Strip(Tail(s))
  ELSE IF s[Len(s)] \in Whitespace THEN Strip(SubSeq(s, 1, Len(s) - 1))
  ELSE s

IsNcbiIgnoringCase(s) ==
  [i \in 1..Len(Strip(s)) |-> LowerCase(Strip(s)[i])] = <<"n", "c", "b", "i">>

C11_HalfPairNamedAndSkipped ==
  Called("generate_custom_col_dict") =>
    LET raw == f_call.args[1]
        errors == f_ret.errors
        columns == f_ret.columns
    IN  /\ \A i \in 1..MaxPairs :
             /\ (DictHas(raw, CustomKey(i)) /\ ~DictHas(raw, CustomDescKey(i))) =>
                  /\ Err("ExpectedLine", 0, CustomDescKey(i)) \in SeqRange(errors)
                  /\ ~DictHas(columns, DictGet(raw, CustomKey(i)))
             /\ (~DictHas(raw, CustomKey(i)) /\ DictHas(raw, CustomDescKey(i))) =>
                  Err("ExpectedLine", 0, CustomKey(i)) \in SeqRange(errors)
        /\ Len(raw) % 2 = 1 =>
             /\ CountKind(errors, "CustomWithoutDefinition") = 1
             /\ \A i \in 1..MaxPairs :
                  (DictHas(raw, CustomKey(i)) /\ DictHas(raw, CustomDescKey(i))) =>
                     /\ DictHas(columns, DictGet(raw, CustomKey(i)))
                     /\ DictGet(columns, DictGet(raw, CustomKey(i)))
                          = DictGet(raw, CustomDescKey(i))

\* how often x occurs in a list
Occurrences(list, x) == Cardinality({i \in 1..Len(list) : list[i] = x})

\* C12: the table module's validate_custom_columns returns no error exactly
\* when the table's custom headers, as a multiset, are the contract's names.
\* Both empty: no error; headers without contract: the undeclared-usage
\* error alone; contract without headers: the declared-but-unused error
\* alone; both non-empty: one error for each contract name absent from the
\* table, one error for all leftover table headers, and the count-mismatch
\* error exactly when the two sizes differ.
C12_CustomColumnCases ==
  Called("validate_custom_columns") =>
    LET table == f_call.args[1]
        names == DictKeys(f_call.args[2])
        absent == {n \in SeqRange(names) : n \notin SeqRange(table)}
        leftover == \E h \in SeqRange(table) :
                      h \notin SeqRange(names) \/ Occurrences(table, h) > 1
    IN  /\ (f_ret = <<>>) <=>
             /\ SeqRange(table) = SeqRange(names)
             /\ \A h \in SeqRange(table) : Occurrences(table, h) = 1
        /\ (table = <<>> /\ names = <<>>) => f_ret = <<>>
        /\ (table # <<>> /\ names = <<>>) => f_ret = <<Err("CustomUndeclared", 0, <<>>)>>
        /\ (table = <<>> /\ names # <<>>) => f_ret = <<Err("CustomUnused", 0, <<>>)>>
        /\ (table # <<>> /\ names # <<>>) =>
             /\ \A n \in SeqRange(names) :
                  Occurrences(f_ret, Err("CustomHeaderNotInTable", 0, n))
                    = (IF n \in absent THEN 1 ELSE 0)
             /\ CountKind(f_ret, "CustomHeadersUndefined") = (IF leftover THEN 1 ELSE 0)
             /\ CountKind(f_ret, "CustomCountMismatch")
                  = (IF Len(table) # Len(names) THEN 1 ELSE 0)
             /\ Len(f_ret) = Cardinality(absent)
                             + CountKind(f_ret, "CustomHeadersUndefined")
                             + CountKind(f_ret, "CustomCountMismatch")

\* one contract name, two table headers of another name: all three errors
C12_Witness ==
  /\ Called("validate_custom_columns")
  /\ Len(f_call.args[1]) = 2 /\ Len(f_call.args[2]) = 1
  /\ CountKind(f_ret, "CustomCountMismatch") = 1
  /\ CountKind(f_ret, "CustomHeaderNotInTable") = 1
  /\ CountKind(f_ret, "CustomHeadersUndefined") = 1

\* the call of validate_metadata_table read a table
TableRead == Called("validate_metadata_table") /\ f_call.args[1].status = "ok"

\* C13: the table stage has an absence error for each mandatory header that
\* is not among the table's headers, whatever the order of the headers, and
\* a count-mismatch error whenever the number of headers left after taking
\* out the mandatory headers found differs from the number of contract
\* columns, also when mandatory headers are missing.
C13_AbsenceAndResidualCount ==
  (TableRead /\ ~f_ret.raised) =>
    LET headers == f_call.args[1].headers
        contract == f_call.args[2]
        found == {k \in 1..Len(mandatory_headers) : mandatory_headers[k] \in SeqRange(headers)}
        residual == Len(headers) - Cardinality(found)
    IN  /\ \A k \in 1..Len(mandatory_headers) :
             k \notin found =>
               Err("MissingHeader", 0, mandatory_headers[k]) \in SeqRange(f_ret.errors)
        /\ residual # Len(contract) =>
             CountKind(f_ret.errors, "ColumnCount")
               + CountKind(f_ret.errors, "CustomCountMismatch") >= 1

\* a lookup was due: NCBI mode is on and there is a name to look up
LookedUp ==
  /\ Called("validate_local_organism_name")
  /\ f_call.args[1] # <<>>
  /\ f_call.args[2]

ConnectionFailed(lookup) == lookup.kind \in {"connection_error", "builtin_connection_error"}

\* C14: with NCBI mode on, a connection failure of the lookup makes
\* validate_local_organism_name return one error and no taxon ID, without
\* raising, and validate_metadata_table finishes the row and the rows after
\* it.
C14_ConnectionFailureIsAnError ==
  /\ (LookedUp /\ ConnectionFailed(f_call.args[3])) =>
        /\ ~f_ret.raised
        /\ Len(f_ret.errors) = 1
        /\ f_ret.ids = <<>>
  /\ TableRead =>
        /\ ~f_ret.raised
        /\ SeqRange(mandatory_headers) \subseteq SeqRange(f_call.args[1].headers) =>
              Len(f_ret.local_identifiers) = Len(f_call.args[1].rows)

\* C15: with NCBI mode on, an answer that cannot be read as a list of
\* suggestions, or that is a list of no suggestion, gives the "no appropriate
\* matches" error and no taxon ID; any other answer gives no error and the
\* integer taxId of every suggestion.
C15_NoSuggestionIsNoMatch ==
  (LookedUp /\ ~ConnectionFailed(f_call.args[3])) =>
    LET name == f_call.args[1]
        lookup == f_call.args[3]
    IN  /\ ~f_ret.raised
        /\ IF lookup.kind # "list" \/ lookup.ids = <<>>
           THEN f_ret.errors = <<Err("NoNcbiMatch", 0, name)>> /\ f_ret.ids = <<>>
           ELSE /\ f_ret.errors = <<>>
                /\ f_ret.ids = [i \in 1..Len(lookup.ids) |-> IntOf(lookup.ids[i])]

\* C16: validate_ncbi_tax_id returns an error, with NCBI mode off, exactly
\* when an ID is given, and with NCBI mode on, exactly when the ID is not in
\* the list of expected IDs; so in NCBI mode an empty list of expected IDs
\* gives an error for every ID, 0 or none included.
C16_TaxIdError ==
  Called("validate_ncbi_tax_id") =>
    LET id == f_call.args[1]
        expected == f_call.args[2]
        ncbi == f_call.args[3]
    IN  /\ Len(f_ret) <= 1
        /\ ~ncbi => ((f_ret # <<>>) <=> id # 0)
        /\ ncbi => ((f_ret # <<>>) <=> \A i \in 1..Len(expected) : expected[i] # id)
        /\ (ncbi /\ expected = <<>>) => Len(f_ret) = 1

\* NCBI mode, no expected ID, no ID given: still an error
C16_Witness ==
  /\ Called("validate_ncbi_tax_id")
  /\ f_call.args[1] = 0 /\ f_call.args[2] = <<>> /\ f_call.args[3]
  /\ Len(f_ret) = 1

\* C17: with NCBI mode off validate_local_organism_name asks the taxonomy
\* service nothing, so its result is the same whatever the service would
\* answer; it returns no taxon ID for any name, and the name error is there
\* exactly when a non-empty name does not match the genus-plus-text pattern.
C17_NoLookupWithoutNcbi ==
  (Called("validate_local_organism_name") /\ ~f_call.args[2]) =>
    LET name == f_call.args[1]
    IN  /\ ~f_ret.raised
        /\ f_ret.ids = <<>>
        /\ \A lookup \in LookupSet : f_ret = ValidateLocalOrganismName(name, FALSE, lookup)
        /\ CountKind(f_ret.errors, "NameInvalid")
             = (IF name # <<>> /\ ~MatchName(name) THEN 1 ELSE 0)
        /\ name # <<>> => Len(f_ret.errors) = CountKind(f_ret.errors, "NameInvalid")

\* a genus alone, checked while the service is out of reach
C17_Witness ==
  /\ Called("validate_local_organism_name")
  /\ ~f_call.args[2]
  /\ f_call.args[1] = <<"H">>
  /\ f_call.args[3].kind = "connection_error"
  /\ f_ret = [errors |-> <<Err("NameInvalid", 0, <<"H">>)>>, ids |-> <<>>, raised |-> FALSE]

\* the table read has every mandatory column
AllMandatoryColumns ==
  TableRead /\ SeqRange(mandatory_headers) \subseteq SeqRange(f_call.args[1].headers)

\* the errors of a list that carry row number n, in their order
ErrorsOfRow(errors, n) == SelectSeq(errors, LAMBDA e : e.line = n)

\* C18: for a table with every mandatory column validate_metadata_table
\* evaluates every row: it returns the identifier cells of all rows in row
\* order, valid or not, and every error of a row carries the 1-based number
\* of that row.
C18_EveryRowEvaluated ==
  AllMandatoryColumns =>
    LET rows == f_call.args[1].rows
        ncbi == f_call.args[3]
    IN  /\ ~f_ret.raised
        /\ f_ret.local_identifiers = [k \in 1..Len(rows) |-> rows[k].local_identifier]
        /\ \A i \in 1..Len(f_ret.errors) : f_ret.errors[i].line \in 0..Len(rows)
        /\ \A k \in 1..Len(rows) :
             ErrorsOfRow(f_ret.errors, k) = ValidateRow(rows[k], ncbi, k).errors

\* C19: once all rows are processed validate_metadata_table appends exactly
\* one duplicate-identifier error, as its last error, if some identifier
\* occurs more than once in the collected list, however many repeats there
\* are, and none if all identifiers are distinct.
C19_OneDuplicateSummary ==
  (AllMandatoryColumns /\ ~f_ret.raised) =>
    LET ids == f_ret.local_identifiers
        repeated == \E i, j \in 1..Len(ids) : i # j /\ ids[i] = ids[j]
    IN  /\ CountKind(f_ret.errors, "DuplicateIds") = (IF repeated THEN 1 ELSE 0)
        /\ repeated => f_ret.errors[Len(f_ret.errors)].kind = "DuplicateIds"

\* three rows with the same identifier: two repeats, one message
C19_Witness ==
  /\ AllMandatoryColumns /\ ~f_ret.raised
  /\ f_ret.local_identifiers = << <<"a">>, <<"a">>, <<"a">> >>
  /\ CountKind(f_ret.errors, "DuplicateIds") = 1

\* the keys that open a line of the manifest read by the first stage
ManifestKeys ==
  {manifest_file.lines[i][1] :
     i \in {j \in 1..Len(manifest_file.lines) : manifest_file.lines[j] # <<>>}}

\* the manifest was read, every line of it holds a key and a value, and
\* exactly one mandatory key is absent from it
OneMandatoryKeyAbsent ==
  /\ stages # <<>> /\ manifest_file.found
  /\ \A i \in 1..Len(manifest_file.lines) : Len(manifest_file.lines[i]) = 2
  /\ Cardinality(SeqRange(mandatory_record_content) \ ManifestKeys) = 1

\* C20: when one of the mandatory keys LOCALTAXONOMY, REFERENCEDATASETNAME,
\* FASTA or TABLE is absent from the manifest, validate_metadata_record does
\* not raise and ends with a non-empty error list, and validate_txmb writes
\* those errors to the report and returns without starting the table and
\* FASTA stages.
C20_AbsentKeyReportedNoRaise ==
  OneMandatoryKeyAbsent =>
    /\ pc = "returned"
    /\ metadata_record_errors # <<>>
    /\ stages = <<"record">>
    /\ report # <<>>
    /\ result = "Could not validate metadata record"

\* the validator was called twice in succession on the same argument objects
CalledTwice(fn) == f_call.fn = fn

\* C21: calling a validator twice in succession with the same argument
\* objects (validate_txmb_fasta with the same identifier list,
\* validate_mandatory_headers with the same header list, the table module's
\* validate_custom_columns with the same header list and contract) returns
\* the same error list both times.
C21_SecondCallSameErrors ==
  (\/ CalledTwice("validate_txmb_fasta twice")
   \/ CalledTwice("validate_mandatory_headers twice")
   \/ CalledTwice("validate_custom_columns twice"))
  => f_ret.first = f_ret.second

\* the error list that validate_local_taxonomy or validate_dataset_name returned
RecordFieldErrors ==
  IF Called("validate_local_taxonomy") /\ f_call.args[1] # <<>> THEN f_ret[1] ELSE f_ret

\* C22: validate_local_taxonomy and validate_dataset_name report no length
\* error for a value of exactly 50 characters and one for a value of 51
\* characters, and the character-pattern error is reported whenever a
\* character of the value is outside letters, digits and underscore,
\* whatever the length.
C22_LengthBoundary ==
  ((Called("validate_local_taxonomy") \/ Called("validate_dataset_name"))
   /\ f_call.args[1] # <<>>)
  => LET v == f_call.args[1] IN
     /\ Len(v) = 50 => CountKind(RecordFieldErrors, "FieldTooLong") = 0
     /\ Len(v) = 51 => CountKind(RecordFieldErrors, "FieldTooLong") = 1
     /\ CountKind(RecordFieldErrors, "RegexMismatch")
          = (IF \E i \in 1..Len(v) : v[i] \notin WordChars THEN 1 ELSE 0)

\* a dataset name of exactly 50 allowed characters came back without error
C22_Witness ==
  /\ Called("validate_dataset_name")
  /\ Len(f_call.args[1]) = 50 /\ f_ret = <<>>

\* the line read before this step was a sequence line
AfterSequenceLine ==
  fasta_lines # <<>> /\ ~IsIdLine(fasta_lines[Len(fasta_lines)])

\* C23: a sequence line right after a sequence line adds exactly one "Two
\* consecutive sequence lines" error with the second line's number, leaves
\* the ledger alone and keeps the state AwaitingIdentifier; the identifier
\* line that follows is then consumed and, when it is in the ledger, matched.
C23_SecondSeqLineFlagged ==
  [][ (ReadStep /\ AfterSequenceLine) =>
        /\ ~IsIdLine(LineRead) =>
             /\ fasta_errors' = Append(fasta_errors,
                                       Err("TwoSeqLines", Len(fasta_lines'), <<>>))
             /\ remaining_ids' = remaining_ids
             /\ line_flag' = line_flag
             /\ line_flag' # "id"
             /\ fasta_pc' = "loop"
        /\ (IsIdLine(LineRead) /\ FastaIdentifier(LineRead) \in SeqRange(remaining_ids)) =>
             /\ line_flag' = "id"
             /\ fasta_errors' = fasta_errors
             /\ remaining_ids' = ListPop(remaining_ids,
                                         ListIndex(remaining_ids, FastaIdentifier(LineRead)))
    ]_vars

\* C24: after the whole file is consumed the error list holds exactly one
\* unmatched-identifiers error naming all remaining ledger entries when there
\* is at least one, and none when the ledger is empty; it holds the
\* even-line-count error exactly when the number of lines is odd.
C24_OneUnmatchedErrorAndParity ==
  FileConsumed =>
    /\ CountKind(fasta_errors, "IdsNotInFasta") = (IF remaining_ids # <<>> THEN 1 ELSE 0)
    /\ remaining_ids # <<>> =>
         \E j \in 1..Len(fasta_errors) :
           fasta_errors[j] = Err("IdsNotInFasta", 0,
                                 UnmatchedText(remaining_ids, Len(remaining_ids)))
    /\ CountKind(fasta_errors, "OddLineCount") = (IF Len(fasta_lines) % 2 = 1 THEN 1 ELSE 0)

\* the text of a line without its line terminator
LineText == BeforeEnd(f_call.args[1])

\* C25: check_sequence returns an empty error list if and only if the line
\* is non-empty and every character of it is in the nucleotide alphabet; the
\* "could not be diagnosed" error is present exactly when the list is not
\* empty and holds none of the whitespace, non-nucleotide and null errors.
C25_EmptyIffNucleotideLine ==
  Called("check_sequence") =>
    /\ f_ret = <<>> <=> (f_call.args[1] # <<>> /\ AllIn(LineText, NucleotideChars))
    /\ CountKind(f_ret, "SeqUndiagnosed") = 1
         <=> /\ f_ret # <<>>
             /\ CountKind(f_ret, "SeqWhitespace") = 0
             /\ CountKind(f_ret, "SeqNonNucleotide") = 0
             /\ CountKind(f_ret, "SeqNull") = 0

\* C26: for a line that fails the alphabet check, check_sequence appends the
\* whitespace error if the text of the line holds a whitespace character at
\* any position, and the non-nucleotide error if it holds a letter of the
\* non-nucleotide set at any position, each independently of the other.
C26_DiagnosisAtAnyPosition ==
  (Called("check_sequence") /\ ~AllIn(LineText, NucleotideChars)) =>
    /\ (\E i \in 1..Len(LineText) : LineText[i] \in Whitespace)
         => CountKind(f_ret, "SeqWhitespace") = 1
    /\ (\E i \in 1..Len(LineText) : LineText[i] \in NonNucleotideChars)
         => CountKind(f_ret, "SeqNonNucleotide") = 1

\* the cell is empty or NaN
NullCell(cell) ==
  \/ cell.type = "str" /\ cell.value = <<>>
  \/ cell.type = "float" /\ cell.value = <<"n", "a", "n">>

\* C27: validate_identifier reports the "Sequence identifier is null" error
\* only for an empty or NaN value; every other value, a number included, is
\* checked for length <= 50 and for the identifier pattern only, and is valid
\* when it passes both.
C27_NullOnlyForEmptyOrNaN ==
  Called("validate_identifier") =>
    LET cell == f_call.args[1] IN
    /\ CountKind(f_ret, "IdNull") > 0 => NullCell(cell)
    /\ ~NullCell(cell) =>
         (f_ret = <<>> <=> (Len(cell.value) <= 50 /\ MatchPlus(cell.value, WordChars)))

\* the FASTA stage was started on a file that could not be opened
FastaFileMissing == stages = <<"record", "table", "fasta">> /\ ~fasta_file.exists

\* C28: when the manifest and table stages pass but the FASTA file is missing
\* or unreadable, validate_txmb does not raise: the FASTA stage's error
\* list holds messages only, it is written to the report, and the failure
\* message is returned.
C28_MissingFastaReported ==
  FastaFileMissing =>
    /\ pc = "returned"
    /\ txmb_fasta_errors # <<>>
    /\ CountKind(txmb_fasta_errors, "OpenException") = 0
    /\ report # <<>>
    /\ report[1].lines = txmb_fasta_errors
    /\ result = "Could not validate fasta"

C30_ResultTellsMatch ==
  Called("check_identifier") =>
    LET identifier == StatedIdentifier(f_call.args[1])
        ledger == f_call.args[2]
    IN  /\ f_ret.remaining_ids = ledger
        /\ identifier \in SeqRange(ledger) => (f_ret.errors = <<>> /\ f_ret.id_index # 0)
        /\ identifier \notin SeqRange(ledger) =>
             /\ f_ret.errors = <<Err("IdNotInTable", f_call.args[3], identifier)>>
             /\ f_ret.id_index = 0

====
